---- MODULE Spec2Model ----
(***************************************************************************)
(* Model of client/src/utils/script.js: analyzeBBox(bbox, options) and its *)
(* helpers (overpass, osmToGeoJSON, lengthKm, pointDensityPerKm2,          *)
(* intersectionDensityPerKm2, normClip, generateGeminiAnalysis).           *)
(*                                                                         *)
(* The repository holds two versions of the module: script.js, whose       *)
(* generateGeminiAnalysis returns a canned report before anything else,    *)
(* and unnamed/part_000, whose generateGeminiAnalysis calls the generator. *)
(* The variable build says which of the two is loaded.                     *)
(*                                                                         *)
(* Numbers.  A JavaScript number v is held as the integer v * ONE (fixed   *)
(* point, four decimals); the IEEE value NaN is the integer NaN, which     *)
(* every arithmetic operator propagates.  Coordinates are integers in      *)
(* units of half a quantization cell (0.5e-4 degree).  turf's geodesic     *)
(* area() and length() are external: they are taken planar, one coordinate *)
(* unit to the kilometre.                                                   *)
(***************************************************************************)
EXTENDS Integers, Sequences, FiniteSets, TLC

\* ------------------------------------------------------------------ bounds
MaxRetries == 2
MaxClip == 3
MaxVerts == 2
MaxElems == 2

\* -------------------------------------------------------------- arithmetic
\* ONE is the number 1.0, NaN the value NaN, Eps the 1e-9 of normClip (the
\* smallest positive number there is here).
ONE == 10000
NaN == -1000000
Eps == 1

IsNaN(x) == x = NaN
Abs(x) == IF x < 0 THEN -x ELSE x
MaxOf(a, b) == IF a > b THEN a ELSE b
MinOf(a, b) == IF a < b THEN a ELSE b

\* a / b on fixed-point numbers (x/0 is Infinity or NaN in JavaScript; the
\* callers guard b = 0, so it is NaN here).
Div(a, b) == IF IsNaN(a) \/ IsNaN(b) \/ b = 0 THEN NaN ELSE (a * ONE) \div b

\* Number(x.toFixed(d)): round half up to d decimals.
ToFixed(x, d) ==
  LET q == CASE d = 4 -> 1 [] d = 3 -> 10 [] d = 1 -> 1000 [] OTHER -> ONE
  IN  IF IsNaN(x) THEN NaN ELSE ((x + (q \div 2)) \div q) * q

\* Math.round(c * 10000) for a coordinate c held in half cells.
Quantize(c) == (c + 1) \div 2

\* ------------------------------------------------------------ the helpers
bboxPolygon(b) ==
  << <<b[1], b[2]>>, <<b[3], b[2]>>, <<b[3], b[4]>>, <<b[1], b[4]>>, <<b[1], b[2]>> >>

\* area(aoi) / 1e6 of the ring bboxPolygon builds: the absolute planar area.
AreaKm2(ring) ==
  IF \E i \in 1..Len(ring) : IsNaN(ring[i][1]) \/ IsNaN(ring[i][2])
  THEN NaN
  ELSE Abs(ring[2][1] - ring[1][1]) * Abs(ring[3][2] - ring[2][2]) * ONE

truthy_KeyPresent(props, k) == k \in DOMAIN props

truthy(props, k) == k \in DOMAIN props /\ props[k] # ""

Props_IdWins(el) ==
  [k \in {"id"} \cup DOMAIN el.tags |-> IF k = "id" THEN el.id ELSE el.tags[k]]

\* { id: el.id, ...(el.tags || {}) }
Props(el) ==
  [k \in {"id"} \cup DOMAIN el.tags |-> IF k \in DOMAIN el.tags THEN el.tags[k] ELSE el.id]

Undefined == <<>>

Coords(geometry) == [i \in 1..Len(geometry) |-> <<geometry[i].lon, geometry[i].lat>>]

FeatureOf_OpenRing(el, geomTypes) ==
  IF el.type \notin geomTypes THEN <<>>
  ELSE IF el.type = "node"
    THEN << [type |-> "Feature",
             geometry |-> [type |-> "Point", coordinates |-> <<el.lon, el.lat>>],
             properties |-> Props(el)] >>
  ELSE IF el.type = "way" /\ el.hasGeometry
    THEN LET coords == Coords(el.geometry)
             geom == IF truthy(Props(el), "building")
                     THEN [type |-> "Polygon", coordinates |-> << coords >>]
                     ELSE [type |-> "LineString", coordinates |-> coords]
         IN  << [type |-> "Feature", geometry |-> geom, properties |-> Props(el)] >>
  ELSE <<>>

FeatureOf_NoFilter(el, geomTypes) ==
  IF el.type = "node"
    THEN << [type |-> "Feature",
             geometry |-> [type |-> "Point", coordinates |-> <<el.lon, el.lat>>],
             properties |-> Props(el)] >>
  ELSE IF el.hasGeometry
    THEN LET coords == Coords(el.geometry)
             first == IF Len(coords) > 0 THEN coords[1] ELSE Undefined
             geom == IF truthy(Props(el), "building")
                     THEN [type |-> "Polygon", coordinates |-> << coords \o <<first>> >>]
                     ELSE [type |-> "LineString", coordinates |-> coords]
         IN  << [type |-> "Feature", geometry |-> geom, properties |-> Props(el)] >>
  ELSE << [type |-> "Feature",
           geometry |-> [type |-> "Point", coordinates |-> <<el.lon, el.lat>>],
           properties |-> Props(el)] >>

\* The feature osmToGeoJSON pushes for one element, as a sequence of 0 or 1.
FeatureOf(el, geomTypes) ==
  IF el.type \notin geomTypes THEN <<>>
  ELSE IF el.type = "node"
    THEN << [type |-> "Feature",
             geometry |-> [type |-> "Point", coordinates |-> <<el.lon, el.lat>>],
             properties |-> Props(el)] >>
  ELSE IF el.type = "way" /\ el.hasGeometry
    THEN LET coords == Coords(el.geometry)
             first == IF Len(coords) > 0 THEN coords[1] ELSE Undefined
             geom == IF truthy(Props(el), "building")
                     THEN [type |-> "Polygon", coordinates |-> << coords \o <<first>> >>]
                     ELSE [type |-> "LineString", coordinates |-> coords]
         IN  << [type |-> "Feature", geometry |-> geom, properties |-> Props(el)] >>
  ELSE <<>>

RECURSIVE FeaturesFrom(_, _, _)
FeaturesFrom(elements, i, geomTypes) ==
  IF i > Len(elements) THEN <<>>
  ELSE FeatureOf(elements[i], geomTypes) \o FeaturesFrom(elements, i + 1, geomTypes)

osmToGeoJSON(osmJson, geomTypes) ==
  [type |-> "FeatureCollection", features |-> FeaturesFrom(osmJson.elements, 1, geomTypes)]

\* turf length() of a path, in km.
RECURSIVE PathLen(_, _)
PathLen(path, i) ==
  IF i >= Len(path) THEN 0
  ELSE (Abs(path[i + 1][1] - path[i][1]) + Abs(path[i + 1][2] - path[i][2])) * ONE
       + PathLen(path, i + 1)

FeatureLen(f) ==
  CASE f.geometry.type = "LineString" -> PathLen(f.geometry.coordinates, 1)
    [] f.geometry.type = "Polygon" -> PathLen(f.geometry.coordinates[1], 1)
    [] OTHER -> 0

RECURSIVE SumLen(_, _)
SumLen(features, i) ==
  IF i > Len(features) THEN 0 ELSE FeatureLen(features[i]) + SumLen(features, i + 1)

lengthKm(featureCollection) == SumLen(featureCollection.features, 1)

pointDensityPerKm2_Unguarded(featureCollection, areaKm2) ==
  Div(Len(featureCollection.features) * ONE, areaKm2)

pointDensityPerKm2(featureCollection, areaKm2) ==
  IF areaKm2 = 0 THEN 0 ELSE Div(Len(featureCollection.features) * ONE, areaKm2)

\* The keys `${rx},${ry}` of the vertices of one line, in order.
LineKeys(line) == [j \in 1..Len(line) |-> <<Quantize(line[j][1]), Quantize(line[j][2])>>]

RECURSIVE LinesKeys(_, _)
LinesKeys(lines, i) ==
  IF i > Len(lines) THEN <<>> ELSE LineKeys(lines[i]) \o LinesKeys(lines, i + 1)

\* pts: the key of every vertex of every LineString and MultiLineString.
RECURSIVE Keys(_, _)
Keys(features, i) ==
  IF i > Len(features) THEN <<>>
  ELSE (IF features[i].geometry.type = "LineString"
        THEN LineKeys(features[i].geometry.coordinates)
        ELSE IF features[i].geometry.type = "MultiLineString"
        THEN LinesKeys(features[i].geometry.coordinates, 1)
        ELSE <<>>)
       \o Keys(features, i + 1)

intersectionDensityPerKm2_Pairs(roadsFeatureCollection, areaKm2) ==
  LET pts == Keys(roadsFeatureCollection.features, 1)
      cells == {pts[i] : i \in 1..Len(pts)}
      count(k) == Cardinality({i \in 1..Len(pts) : pts[i] = k})
      intersections == Cardinality({k \in cells : count(k) >= 2})
  IN  IF areaKm2 = 0 THEN 0
      ELSE IF Len(pts) = 0 THEN 0
      ELSE Div(intersections * ONE, areaKm2)

intersectionDensityPerKm2(roadsFeatureCollection, areaKm2) ==
  LET pts == Keys(roadsFeatureCollection.features, 1)
      cells == {pts[i] : i \in 1..Len(pts)}
      count(k) == Cardinality({i \in 1..Len(pts) : pts[i] = k})
      intersections == Cardinality({k \in cells : count(k) >= 3})
  IN  IF areaKm2 = 0 THEN 0
      ELSE IF Len(pts) = 0 THEN 0
      ELSE Div(intersections * ONE, areaKm2)

\* n / d for 0 <= n < d, in two steps of two decimals each (n * ONE may not
\* fit an integer).
Ratio(n, d) ==
  LET q1 == (n * 100) \div d
      r1 == (n * 100) % d
  IN  q1 * 100 + (r1 * 100) \div d

\* Math.max(0.0, Math.min(1.0, (x - a) / (b - a + 1e-9))): the quotient is
\* NaN for 0/0, plus or minus Infinity for another division by zero.
normClip_NoEps(x, a, b) ==
  LET n == x - a
      d == b - a
  IN  IF IsNaN(x) \/ IsNaN(a) \/ IsNaN(b) THEN NaN
      ELSE IF d = 0 THEN (IF n = 0 THEN NaN ELSE IF n > 0 THEN ONE ELSE 0)
      ELSE IF (n >= 0 /\ d < 0) \/ (n <= 0 /\ d > 0) THEN 0
      ELSE IF Abs(n) >= Abs(d) THEN ONE
      ELSE Ratio(Abs(n), Abs(d))

normClip(x, a, b) ==
  LET n == x - a
      d == b - a + Eps
  IN  IF IsNaN(x) \/ IsNaN(a) \/ IsNaN(b) THEN NaN
      ELSE IF d = 0 THEN (IF n = 0 THEN NaN ELSE IF n > 0 THEN ONE ELSE 0)
      ELSE IF (n >= 0 /\ d < 0) \/ (n <= 0 /\ d > 0) THEN 0
      ELSE IF Abs(n) >= Abs(d) THEN ONE
      ELSE Ratio(Abs(n), Abs(d))

Half(x) == IF IsNaN(x) THEN NaN ELSE x \div 2
Plus(x, y) == IF IsNaN(x) \/ IsNaN(y) THEN NaN ELSE x + y

\* (f.properties.amenity || "").toLowerCase() === value
LowerCase(s) == CASE s = "Hospital" -> "hospital" [] s = "School" -> "school" [] OTHER -> s
AmenityIs(f, value) ==
  LowerCase(IF truthy(f.properties, "amenity") THEN f.properties["amenity"] ELSE "") = value

\* infra, access, activity, green and socio_score of analyzeBBox.
SocioScore_Unclipped(road_km_per_km2, intxn_per_km2, hosp_per_km2, school_per_km2) ==
  LET infra == Plus(Half(road_km_per_km2 \div 10), Half(intxn_per_km2 \div 200))
      access == Plus(Half(hosp_per_km2 \div 5), Half(school_per_km2 \div 8))
  IN  35 * infra + 35 * access

SocioScore(road_km_per_km2, intxn_per_km2, hosp_per_km2, school_per_km2) ==
  LET infra == Plus(Half(normClip(road_km_per_km2, 0, 10 * ONE)),
                    Half(normClip(intxn_per_km2, 0, 200 * ONE)))
      access == Plus(Half(normClip(hosp_per_km2, 0, 5 * ONE)),
                     Half(normClip(school_per_km2, 0, 8 * ONE)))
      activity == 0
      green == 0
  IN  IF IsNaN(infra) \/ IsNaN(access) THEN NaN
      ELSE 35 * infra + 35 * access + 20 * activity + 10 * green

MetricFields ==
  {"area_km2", "roads_km", "roads_km_per_km2", "buildings_count", "buildings_per_km2",
   "intersections_per_km2", "hospitals_per_km2", "schools_per_km2", "SocioEconScore"}

\* analyzeBBox from the three payloads to the metrics record.
ComputeMetrics(bbox, roadsOs, buildOs, amenOs) ==
  LET roadsGeo == osmToGeoJSON(roadsOs, {"way"})
      buildGeo == osmToGeoJSON(buildOs, {"way"})
      amenGeo == osmToGeoJSON(amenOs, {"node"})
      areaKm2 == AreaKm2(bboxPolygon(bbox))
      road_km == lengthKm(roadsGeo)
      road_km_per_km2 == IF areaKm2 = 0 THEN 0 ELSE Div(road_km, areaKm2)
      bldg_count == Len(buildGeo.features)
      bldg_per_km2 == IF areaKm2 = 0 THEN 0 ELSE Div(bldg_count * ONE, areaKm2)
      intxn_per_km2 == intersectionDensityPerKm2(roadsGeo, areaKm2)
      hospitals == [type |-> "FeatureCollection",
                    features |-> SelectSeq(amenGeo.features, LAMBDA f : AmenityIs(f, "hospital"))]
      schools == [type |-> "FeatureCollection",
                  features |-> SelectSeq(amenGeo.features, LAMBDA f : AmenityIs(f, "school"))]
      hosp_per_km2 == pointDensityPerKm2(hospitals, areaKm2)
      school_per_km2 == pointDensityPerKm2(schools, areaKm2)
      socio_score == SocioScore(road_km_per_km2, intxn_per_km2, hosp_per_km2, school_per_km2)
  IN  [area_km2 |-> ToFixed(areaKm2, 3),
       roads_km |-> ToFixed(road_km, 3),
       roads_km_per_km2 |-> ToFixed(road_km_per_km2, 3),
       buildings_count |-> bldg_count,
       buildings_per_km2 |-> ToFixed(bldg_per_km2, 3),
       intersections_per_km2 |-> ToFixed(intxn_per_km2, 3),
       hospitals_per_km2 |-> ToFixed(hosp_per_km2, 4),
       schools_per_km2 |-> ToFixed(school_per_km2, 4),
       SocioEconScore |-> ToFixed(socio_score, 1)]

\* ------------------------------------------------------- the Landing page
MAX_POINTS == 4

Null == <<>>

\* The pairs (i, j), i < j, in the order the two loops visit them.
RECURSIVE PairSeq(_, _, _)
PairSeq(i, j, n) ==
  IF i > n THEN <<>>
  ELSE IF j > n THEN PairSeq(i + 1, i + 2, n)
  ELSE << <<i, j>> >> \o PairSeq(i, j + 1, n)

\* The square of the Euclidean distance of two [lat, lon] points; Math.sqrt
\* keeps the order of the distances.
Distance2(p, q) == (q[1] - p[1]) * (q[1] - p[1]) + (q[2] - p[2]) * (q[2] - p[2])

\* if (distance > maxDistance)
Farther(distance, maxDistance) == distance > maxDistance

\* The two loops: maxDistance, point1, point2 after the pairs from k on.
RECURSIVE Scan(_, _, _, _)
Scan(coordinates, pairs, k, best) ==
  IF k > Len(pairs) THEN best
  ELSE LET p == coordinates[pairs[k][1]]
           q == coordinates[pairs[k][2]]
           distance == Distance2(p, q)
       IN  Scan(coordinates, pairs, k + 1,
                IF Farther(distance, best.maxDistance)
                THEN [maxDistance |-> distance, point1 |-> p, point2 |-> q]
                ELSE best)

\* findLongestDistance(coordinates): [lon1, lat1, lon2, lat2], or a throw
\* (the Error for fewer than 2 points, the TypeError of destructuring null).
findLongestDistance(coordinates) ==
  IF Len(coordinates) < 2 THEN [threw |-> TRUE, value |-> <<>>]
  ELSE LET best == Scan(coordinates, PairSeq(1, 2, Len(coordinates)), 1,
                        [maxDistance |-> 0, point1 |-> Null, point2 |-> Null])
       IN  IF best.point1 = Null THEN [threw |-> TRUE, value |-> <<>>]
           ELSE [threw |-> FALSE,
                 value |-> <<best.point1[2], best.point1[1], best.point2[2], best.point2[1]>>]

\* ------------------------------------------------------------------ inputs
Kinds == {"roads", "build", "amen"}
Builds == {"script", "part_000"}

Pt(lon, lat) == [lon |-> lon, lat |-> lat]
Way(id, tags, geometry) ==
  [type |-> "way", id |-> id, tags |-> tags, lon |-> 0, lat |-> 0,
   hasGeometry |-> TRUE, geometry |-> geometry]
Node(id, tags, lon, lat) ==
  [type |-> "node", id |-> id, tags |-> tags, lon |-> lon, lat |-> lat,
   hasGeometry |-> FALSE, geometry |-> <<>>]

WayNoGeometry(id, tags) ==
  [type |-> "way", id |-> id, tags |-> tags, lon |-> 0, lat |-> 0,
   hasGeometry |-> FALSE, geometry |-> <<>>]
Relation(id, tags) ==
  [type |-> "relation", id |-> id, tags |-> tags, lon |-> 0, lat |-> 0,
   hasGeometry |-> FALSE, geometry |-> <<>>]

\* The JSON documents the interpreter answers with: { elements: [...] }.
EmptyDoc == [elements |-> <<>>]
RoadDoc ==
  [elements |->
     << Way("w1", [highway |-> "primary"], <<Pt(0, 0), Pt(2, 0), Pt(4, 0)>>),
        Way("w2", [highway |-> "residential"], <<Pt(2, 0), Pt(2, 2)>>),
        Way("w3", [highway |-> "service"], <<Pt(2, 0), Pt(0, 2)>>) >>]
BuildDoc ==
  [elements |->
     << Way("b1", [building |-> "yes"], <<Pt(0, 0), Pt(1, 0), Pt(1, 1)>>),
        Way("b2", [building |-> "house", id |-> "tagged"], <<Pt(2, 2), Pt(3, 2), Pt(3, 3)>>) >>]
AmenDoc ==
  [elements |->
     << Node("n1", [amenity |-> "hospital"], 1, 1),
        Node("n2", [amenity |-> "School"], 2, 1),
        Node("n3", [highway |-> "bus_stop"], 0, 1) >>]

Docs(k) ==
  CASE k = "roads" -> {EmptyDoc, RoadDoc}
    [] k = "build" -> {EmptyDoc, BuildDoc}
    [] OTHER -> {EmptyDoc, AmenDoc}

\* What a caller may pass as bbox: isArray is Array.isArray(bbox), elems its
\* elements (NaN stands for an element that is not a number).
BBoxInputs ==
  { [isArray |-> FALSE, elems |-> <<>>],
    [isArray |-> TRUE, elems |-> <<0, 0, 2>>],
    [isArray |-> TRUE, elems |-> <<0, 0, 2, 1, 3>>],
    [isArray |-> TRUE, elems |-> <<0, 0, 2, 1>>],
    [isArray |-> TRUE, elems |-> <<1, 0, 1, 2>>],
    [isArray |-> TRUE, elems |-> <<NaN, 0, 2, 1>>] }

OptionInputs ==
  [apiKey : {"", "key"}, useGemini : BOOLEAN, overpassRetries : 0..MaxRetries]

\* What ai.models.generateContent may resolve with.
GenResponses ==
  { [type |-> "object", text |-> "narrative", candText |-> ""],
    [type |-> "object", text |-> "", candText |-> "candidate"],
    [type |-> "object", text |-> "", candText |-> ""],
    [type |-> "string", text |-> "plain", candText |-> ""],
    [type |-> "string", text |-> "", candText |-> ""],
    [type |-> "null", text |-> "", candText |-> ""],
    [type |-> "undefined", text |-> "", candText |-> ""] }

\* ---------------------------------------------------------------- strings
\* The errors: new Error("bbox must be an array ..."), and the rejection of
\* the request that attempt a of overpass call k posted (each a fresh object).
NoError == [kind |-> "none", of |-> "", attempt |-> 0]
ValidationError == [kind |-> "validation", of |-> "", attempt |-> 0]
RequestError(k, a) == [kind |-> "request", of |-> k, attempt |-> a]
AreaReport == "Okay, let's break down what's going on in your area. ..."
NotConfigured == "Gemini AI analysis not configured. Provide apiKey or set useGemini=false."
Unavailable == "Gemini AI analysis unavailable - using enhanced text analysis instead."
UndefinedValue == "<undefined>"

\* JSON.stringify(response, null, 2) of a response that is no string.
JSONstringify(response) ==
  CASE response.type = "undefined" -> UndefinedValue
    [] response.type = "null" -> "null"
    [] response.type = "string" -> "\"" \o response.text \o "\""
    [] OTHER -> "{" \o (IF response.text # "" THEN "text:" \o response.text ELSE "")
                    \o (IF response.candText # "" THEN "candidates:" \o response.candText ELSE "")
                    \o "}"

\* ------------------------------------------------------------------- state
VARIABLES
  build,      \* which version of the module is loaded
  bbox,       \* analyzeBBox's first argument
  options,    \* analyzeBBox's second argument, defaults filled in
  pc,         \* where analyzeBBox is: "idle", "fetching", "narrative", "done"
  outcome,    \* analyzeBBox's promise: "none", "pending", "resolved", "rejected"
  error,      \* the reason it rejected with
  result,     \* the value it resolved with
  ai,         \* the GoogleGenAI client: "null" or "client"
  fetch,      \* the three overpass calls
  failLog,    \* the overpass calls that rejected, in the order they did
  metrics,    \* the metrics record, once built
  narr,       \* generateGeminiAnalysis: "none", "canned", "unconfigured",
              \* "inflight", "returned", "threw"
  genCalls,   \* calls of ai.models.generateContent made
  genResponse, \* what the last one resolved with
  genPrompt,  \* the values the prompt of the last call was built from
  probe,      \* a helper called on its own: its arguments and what it returned
  second,     \* a second invocation of analyzeBBox: its arguments and locals
  landing     \* the Landing component: its state, local storage, handleClick

vars ==
  <<build, bbox, options, pc, outcome, error, result, ai, fetch, failLog, metrics,
    narr, genCalls, genResponse, genPrompt, probe, second, landing>>

NoDoc == [undefined |-> TRUE]
NoMetrics == [undefined |-> TRUE]
NoResult == [undefined |-> TRUE]
NoBBox == [isArray |-> FALSE, elems |-> <<>>]
NoResponse == [type |-> "none", text |-> "", candText |-> ""]
DefaultOptions == [apiKey |-> "", useGemini |-> TRUE, overpassRetries |-> 1]
NoPrompt == [undefined |-> TRUE]
NoProbe == [fn |-> "none"]

\* An overpass call before it starts.  st: "idle", "inflight" (a request is
\* out), "paused" (the timer between two attempts runs), "ok", "failed".
\* requests counts the axios.post calls, hist holds the answers received.
IdleFetch ==
  [st |-> "idle", attempt |-> 0, requests |-> 0, hist |-> <<>>, data |-> NoDoc, err |-> NoError]

\* An invocation that has not been made. concurrent: the other invocation
\* was pending when this one was called.
NoInvocation ==
  [bbox |-> NoBBox, options |-> DefaultOptions, pc |-> "idle", outcome |-> "none",
   error |-> NoError, result |-> NoResult, ai |-> "null",
   fetch |-> [k \in Kinds |-> IdleFetch], failLog |-> <<>>, metrics |-> NoMetrics,
   narr |-> "none", genCalls |-> 0, genResponse |-> NoResponse, concurrent |-> FALSE]

\* The Landing component before it is rendered. ui: which version of the page.
\* handler: where handleClick is, "idle", "awaiting" (analyzeBBox is pending),
\* "returned" or "threw"; captured: the context its closure holds; pts: the
\* bbox it passed to analyzeBBox. analyses and followUps count the calls started.
NoLanding ==
  [ui |-> "none", mounted |-> FALSE, storage |-> <<>>, points |-> <<>>,
   isLoading |-> FALSE, insights |-> <<>>, context |-> <<>>,
   isFollowUpLoading |-> FALSE, handler |-> "idle", captured |-> <<>>, pts |-> <<>>,
   analyses |-> 0, followUps |-> 0]

BaseInit ==
  /\ build \in Builds
  /\ second = NoInvocation
  /\ bbox = NoBBox
  /\ options = DefaultOptions
  /\ pc = "idle"
  /\ outcome = "none"
  /\ error = NoError
  /\ result = NoResult
  /\ ai = "null"
  /\ fetch = [k \in Kinds |-> IdleFetch]
  /\ failLog = <<>>
  /\ metrics = NoMetrics
  /\ narr = "none"
  /\ genCalls = 0
  /\ genResponse = NoResponse
  /\ genPrompt = NoPrompt

Init == BaseInit /\ probe = NoProbe /\ landing = NoLanding

\* ---------------------------------------------------------------- overpass
\* Mutant: the loop pauses after its last attempt too.
ShouldRetry_Inclusive(attempt, retries) == attempt <= retries

\* Mutant: the loop gives up one attempt early.
ShouldRetry_Early(attempt, retries) == attempt + 1 < retries

\* catch (err) { if (attempt < retries) pause else throw err }
ShouldRetry(attempt, retries) == attempt < retries

\* return r.data
OverpassReturn(r) == r.data

\* overpass(query, retries) up to its first await: attempt 0 is posted.
StartFetch == [IdleFetch EXCEPT !.st = "inflight", !.requests = 1]

\* The request of call f resolves with response r.
FetchResolved(f, r) ==
  [f EXCEPT !.st = "ok", !.data = OverpassReturn(r),
            !.hist = Append(@, [ok |-> TRUE, data |-> r.data])]

\* Mutant: the error thrown at the end is the one of the first attempt.
FetchRejected_FirstError(f, e, retries) ==
  LET h == Append(f.hist, [ok |-> FALSE, err |-> e])
  IN  IF ShouldRetry(f.attempt, retries)
      THEN [f EXCEPT !.st = "paused", !.hist = h]
      ELSE [f EXCEPT !.st = "failed", !.err = h[1].err, !.hist = h]

\* The request of call f rejects with e.
FetchRejected(f, e, retries) ==
  IF ShouldRetry(f.attempt, retries)
  THEN [f EXCEPT !.st = "paused", !.hist = Append(@, [ok |-> FALSE, err |-> e])]
  ELSE [f EXCEPT !.st = "failed", !.err = e, !.hist = Append(@, [ok |-> FALSE, err |-> e])]

\* Mutant: the loop does not count its attempts.
FetchRetry_SameAttempt(f) ==
  [f EXCEPT !.st = "inflight", !.requests = @ + 1]

\* The pause is over: the loop's next attempt is posted.
FetchRetry(f) ==
  [f EXCEPT !.st = "inflight", !.attempt = @ + 1, !.requests = @ + 1]

\* ------------------------------------------------------------- Promise.all
Settled(f) == \A k \in Kinds : f[k].st \in {"ok", "failed"}

\* Mutant: Promise.allSettled, a rejected call read as an empty document.
PromiseAll_Settled(f, log) ==
  IF Settled(f)
  THEN [state |-> "fulfilled", reason |-> NoError,
        values |-> [k \in Kinds |-> IF f[k].st = "ok" THEN f[k].data ELSE EmptyDoc]]
  ELSE [state |-> "pending", reason |-> NoError,
        values |-> [k \in Kinds |-> NoDoc]]

\* Mutant: a join that waits for all three to settle before it rejects.
PromiseAll_JoinAll(f, log) ==
  IF ~Settled(f)
  THEN [state |-> "pending", reason |-> NoError,
        values |-> [k \in Kinds |-> NoDoc]]
  ELSE IF log # <<>>
  THEN [state |-> "rejected", reason |-> f[log[1]].err,
        values |-> [k \in Kinds |-> NoDoc]]
  ELSE [state |-> "fulfilled", reason |-> NoError,
        values |-> [k \in Kinds |-> f[k].data]]

\* Mutant: Promise.any, fulfilled by the first call that succeeds.
PromiseAll_Any(f, log) ==
  IF \E k \in Kinds : f[k].st = "ok"
  THEN [state |-> "fulfilled", reason |-> NoError,
        values |-> [k \in Kinds |-> IF f[k].st = "ok" THEN f[k].data ELSE EmptyDoc]]
  ELSE IF log # <<>>
  THEN [state |-> "rejected", reason |-> f[log[1]].err,
        values |-> [k \in Kinds |-> NoDoc]]
  ELSE [state |-> "pending", reason |-> NoError,
        values |-> [k \in Kinds |-> NoDoc]]

\* The state of Promise.all([roads, build, amen]): it rejects with the first
\* rejection in time and fulfils when all three are fulfilled.
PromiseAll(f, log) ==
  IF log # <<>>
  THEN [state |-> "rejected", reason |-> f[log[1]].err, values |-> [k \in Kinds |-> NoDoc]]
  ELSE IF \A k \in Kinds : f[k].st = "ok"
  THEN [state |-> "fulfilled", reason |-> NoError, values |-> [k \in Kinds |-> f[k].data]]
  ELSE [state |-> "pending", reason |-> NoError, values |-> [k \in Kinds |-> NoDoc]]

\* ------------------------------------------------- generateGeminiAnalysis
\* m[k] as a template literal reads it: undefined when m has no field k.
FieldOf(m, k) ==
  IF k \in DOMAIN m THEN [defined |-> TRUE, value |-> m[k]]
  ELSE [defined |-> FALSE, value |-> Undefined]

\* The values the template literal of the prompt interpolates.
PromptOf(m) ==
  [area_km2 |-> FieldOf(m, "area_km2"),
   location |-> FieldOf(m, "bbox"),
   roads_km_per_km2 |-> FieldOf(m, "roads_km_per_km2"),
   roads_km |-> FieldOf(m, "roads_km"),
   buildings_count |-> FieldOf(m, "buildings_count"),
   buildings_per_km2 |-> FieldOf(m, "buildings_per_km2"),
   intersections_per_km2 |-> FieldOf(m, "intersections_per_km2"),
   hospitals_per_km2 |-> FieldOf(m, "hospitals_per_km2"),
   schools_per_km2 |-> FieldOf(m, "schools_per_km2"),
   SocioEconScore |-> FieldOf(m, "SocioEconScore")]

\* generateGeminiAnalysis up to its first await: what it returns at once, or
\* that it has called ai.models.generateContent and waits.
GeminiStart(b, client) ==
  IF b = "script" THEN [kind |-> "return", value |-> AreaReport, narr |-> "canned"]
  ELSE IF client = "null"
    THEN [kind |-> "return", value |-> NotConfigured, narr |-> "unconfigured"]
  ELSE [kind |-> "await", value |-> "", narr |-> "inflight"]

\* Mutant: a response without text is replaced by the fallback string.
GeminiExtract_Fallback(response) ==
  IF response.type = "object" /\ response.text # "" THEN response.text
  ELSE IF response.type = "object" /\ response.candText # "" THEN response.candText
  ELSE Unavailable

\* The chain after the await: text, candidate text, the string, the JSON.
GeminiExtract(response) ==
  IF response.type = "object" /\ response.text # "" THEN response.text
  ELSE IF response.type = "object" /\ response.candText # "" THEN response.candText
  ELSE IF response.type = "string" THEN response.text
  ELSE JSONstringify(response)

\* Mutant: the catch block rethrows.
GeminiCatch_Rethrow == [kind |-> "throw", value |-> ""]

\* catch (err) { console.error(...); return "... unavailable ..." }
GeminiCatch == [kind |-> "return", value |-> Unavailable]

\* ------------------------------------------------------------- analyzeBBox
\* !Array.isArray(bbox) || bbox.length !== 4
BBoxRejected(b) == ~b.isArray \/ Len(b.elems) # 4

\* Mutant: the calls are awaited one by one, so only the first one is started.
FirstRequests_Sequential == {"roads"}

\* The overpass calls whose first request is out when analyzeBBox first waits.
FirstRequests == Kinds

MakeClient(o) == IF o.useGemini /\ o.apiKey # "" THEN "client" ELSE "null"

OwnClient_ModuleLevel(own, other) == other

\* let ai = null inside analyzeBBox: the client an invocation hands to
\* generateGeminiAnalysis is the one of its own binding, whatever another
\* invocation has bound.
OwnClient(own, other) == own

\* analyzeBBox(b, o), up to the await of Promise.all.
Call ==
  \E b \in BBoxInputs, o \in OptionInputs :
    /\ pc = "idle"
    /\ bbox' = b
    /\ options' = o
    /\ IF BBoxRejected(b)
       THEN /\ pc' = "done"
            /\ outcome' = "rejected"
            /\ error' = ValidationError
            /\ UNCHANGED <<ai, fetch>>
       ELSE /\ pc' = "fetching"
            /\ outcome' = "pending"
            /\ ai' = MakeClient(o)
            /\ fetch' = [k \in Kinds |-> IF k \in FirstRequests THEN StartFetch ELSE IdleFetch]
            /\ UNCHANGED error
    /\ UNCHANGED <<build, result, failLog, metrics, narr, genCalls, genResponse,
                   genPrompt, probe, second, landing>>

\* analyzeBBox after one of its overpass calls moved: Promise.all is looked
\* at, and once it is fulfilled the metrics are built and
\* generateGeminiAnalysis is called.
Continue ==
  LET p == PromiseAll(fetch', failLog')
      m == ComputeMetrics(bbox.elems, p.values["roads"], p.values["build"], p.values["amen"])
      g == GeminiStart(build, OwnClient(ai, second.ai))
  IN  IF pc # "fetching" \/ p.state = "pending"
      THEN UNCHANGED <<pc, outcome, error, result, metrics, narr, genCalls, genPrompt>>
      ELSE IF p.state = "rejected"
      THEN /\ pc' = "done"
           /\ outcome' = "rejected"
           /\ error' = p.reason
           /\ UNCHANGED <<result, metrics, narr, genCalls, genPrompt>>
      ELSE /\ metrics' = m
           /\ narr' = g.narr
           /\ UNCHANGED error
           /\ IF g.kind = "return"
              THEN /\ pc' = "done"
                   /\ outcome' = "resolved"
                   /\ result' = [metrics |-> m, analysis |-> g.value]
                   /\ UNCHANGED <<genCalls, genPrompt>>
              ELSE /\ pc' = "narrative"
                   /\ genCalls' = genCalls + 1
                   /\ genPrompt' = PromptOf(m)
                   /\ UNCHANGED <<outcome, result>>

\* axios.post of overpass call k resolves.
RespondOk ==
  \E k \in Kinds : \E doc \in Docs(k) :
    /\ fetch[k].st = "inflight"
    /\ fetch' = [fetch EXCEPT ![k] = FetchResolved(@, [data |-> doc, status |-> 200])]
    /\ UNCHANGED failLog
    /\ Continue
    /\ UNCHANGED <<build, bbox, options, ai, genResponse, probe, second, landing>>

\* axios.post of overpass call k rejects.
RespondFail ==
  \E k \in Kinds :
    /\ fetch[k].st = "inflight"
    /\ fetch' = [fetch EXCEPT ![k] = FetchRejected(@, RequestError(k, @.attempt),
                                                   options.overpassRetries)]
    /\ failLog' = IF fetch'[k].st = "failed" THEN Append(failLog, k) ELSE failLog
    /\ Continue
    /\ UNCHANGED <<build, bbox, options, ai, genResponse, probe, second, landing>>

\* Mutant: a pause is dropped once analyzeBBox has settled.
TimerFire_Cancelled ==
  \E k \in Kinds :
    /\ fetch[k].st = "paused"
    /\ pc = "fetching"
    /\ fetch' = [fetch EXCEPT ![k] = FetchRetry(@)]
    /\ UNCHANGED <<build, bbox, options, pc, outcome, error, result, ai, failLog,
                   metrics, narr, genCalls, genResponse, genPrompt, probe, second, landing>>

\* The setTimeout of overpass call k fires.
TimerFire ==
  \E k \in Kinds :
    /\ fetch[k].st = "paused"
    /\ fetch' = [fetch EXCEPT ![k] = FetchRetry(@)]
    /\ UNCHANGED <<build, bbox, options, pc, outcome, error, result, ai, failLog,
                   metrics, narr, genCalls, genResponse, genPrompt, probe, second, landing>>

\* ai.models.generateContent resolves: generateGeminiAnalysis returns and
\* analyzeBBox returns { metrics, analysis }.
GenRespond ==
  \E r \in GenResponses :
    /\ pc = "narrative"
    /\ genResponse' = r
    /\ narr' = "returned"
    /\ result' = [metrics |-> metrics, analysis |-> GeminiExtract(r)]
    /\ outcome' = "resolved"
    /\ pc' = "done"
    /\ UNCHANGED <<build, bbox, options, error, ai, fetch, failLog, metrics, genCalls,
                   genPrompt, probe, second, landing>>

\* ai.models.generateContent rejects.
GenThrow ==
  /\ pc = "narrative"
  /\ narr' = "threw"
  /\ IF GeminiCatch.kind = "return"
     THEN /\ result' = [metrics |-> metrics, analysis |-> GeminiCatch.value]
          /\ outcome' = "resolved"
          /\ UNCHANGED error
     ELSE /\ outcome' = "rejected"
          /\ error' = [kind |-> "gemini", of |-> "", attempt |-> 0]
          /\ UNCHANGED result
  /\ pc' = "done"
  /\ UNCHANGED <<build, bbox, options, ai, fetch, failLog, metrics, genCalls, genResponse,
                 genPrompt, probe, second, landing>>

Next == Call \/ RespondOk \/ RespondFail \/ TimerFire \/ GenRespond \/ GenThrow

Spec == Init /\ [][Next]_vars

\* Some axios.post of the call is unanswered: RespondOk \/ RespondFail is
\* enabled exactly then.
RequestInFlight == \E k \in Kinds : fetch[k].st = "inflight"

\* Every request posted is answered, every timer set fires.  The first
\* conjunct after Spec is WF_vars(RespondOk \/ RespondFail) with its ENABLED
\* written out.
LiveSpec ==
  /\ Spec
  /\ ([]<>(~RequestInFlight) \/ []<><<RespondOk \/ RespondFail>>_vars)
  /\ WF_vars(TimerFire)
  /\ WF_vars(GenRespond \/ GenThrow)

\* --------------------------------------------------------- two invocations
\* What the two concurrent callers pass.
ConcBBoxInputs ==
  { [isArray |-> TRUE, elems |-> <<0, 0, 2, 1>>],
    [isArray |-> TRUE, elems |-> <<1, 0, 1, 2>>] }
ConcOptionInputs == [apiKey : {"", "key"}, useGemini : {TRUE}, overpassRetries : {0}]

\* What the interpreter and the generator answer them with.
ConcDocs(k) == IF k = "roads" THEN Docs(k) ELSE Docs(k) \ {EmptyDoc}
ConcGenResponses == {r \in GenResponses : r.text = "narrative" \/ r.type = "undefined"}

First ==
  <<bbox, options, pc, outcome, error, result, ai, fetch, failLog, metrics,
    narr, genCalls, genResponse, genPrompt>>

\* The first invocation is made.
FirstCall ==
  /\ Call
  /\ bbox' \in ConcBBoxInputs /\ options' \in ConcOptionInputs

FirstRespondOk ==
  /\ RespondOk
  /\ \A k \in Kinds : fetch'[k].st = "ok" => fetch'[k].data \in ConcDocs(k)

FirstGenRespond ==
  /\ GenRespond
  /\ genResponse' \in ConcGenResponses

\* analyzeBBox(b, o), up to the await of Promise.all, on its own locals.
Invoke(b, o, overlaps) ==
  IF BBoxRejected(b)
  THEN [NoInvocation EXCEPT !.bbox = b, !.options = o, !.pc = "done",
                            !.outcome = "rejected", !.error = ValidationError,
                            !.concurrent = overlaps]
  ELSE [NoInvocation EXCEPT !.bbox = b, !.options = o, !.pc = "fetching",
                            !.outcome = "pending", !.ai = MakeClient(o),
                            !.fetch = [k \in Kinds |-> IF k \in FirstRequests
                                                       THEN StartFetch ELSE IdleFetch],
                            !.concurrent = overlaps]

\* analyzeBBox after one of its overpass calls moved, on its own locals.
Continued(inv, other) ==
  LET p == PromiseAll(inv.fetch, inv.failLog)
      m == ComputeMetrics(inv.bbox.elems, p.values["roads"], p.values["build"],
                          p.values["amen"])
      g == GeminiStart(build, OwnClient(inv.ai, other))
  IN  IF inv.pc # "fetching" \/ p.state = "pending" THEN inv
      ELSE IF p.state = "rejected"
      THEN [inv EXCEPT !.pc = "done", !.outcome = "rejected", !.error = p.reason]
      ELSE IF g.kind = "return"
      THEN [inv EXCEPT !.metrics = m, !.narr = g.narr, !.pc = "done",
                       !.outcome = "resolved",
                       !.result = [metrics |-> m, analysis |-> g.value]]
      ELSE [inv EXCEPT !.metrics = m, !.narr = g.narr, !.pc = "narrative",
                       !.genCalls = @ + 1]

SecondCall ==
  \E b \in ConcBBoxInputs, o \in ConcOptionInputs :
    /\ second.pc = "idle"
    /\ second' = Invoke(b, o, outcome = "pending")
    /\ UNCHANGED <<build, probe, landing>> /\ UNCHANGED First

SecondRespondOk ==
  \E k \in Kinds : \E doc \in ConcDocs(k) :
    /\ second.fetch[k].st = "inflight"
    /\ second' = Continued([second EXCEPT
                              !.fetch[k] = FetchResolved(@, [data |-> doc, status |-> 200])],
                           ai)
    /\ UNCHANGED <<build, probe, landing>> /\ UNCHANGED First

SecondRespondFail ==
  \E k \in Kinds :
    LET f == FetchRejected(second.fetch[k], RequestError(k, second.fetch[k].attempt),
                           second.options.overpassRetries)
    IN  /\ second.fetch[k].st = "inflight"
        /\ second' = Continued([second EXCEPT
                                  !.fetch[k] = f,
                                  !.failLog = IF f.st = "failed" THEN Append(@, k) ELSE @],
                               ai)
        /\ UNCHANGED <<build, probe, landing>> /\ UNCHANGED First

SecondGenRespond ==
  \E r \in ConcGenResponses :
    /\ second.pc = "narrative"
    /\ second' = [second EXCEPT !.genResponse = r, !.narr = "returned",
                                !.result = [metrics |-> second.metrics,
                                            analysis |-> GeminiExtract(r)],
                                !.outcome = "resolved", !.pc = "done"]
    /\ UNCHANGED <<build, probe, landing>> /\ UNCHANGED First

SecondGenThrow ==
  /\ second.pc = "narrative"
  /\ second' = IF GeminiCatch.kind = "return"
               THEN [second EXCEPT !.narr = "threw", !.pc = "done", !.outcome = "resolved",
                                   !.result = [metrics |-> second.metrics,
                                               analysis |-> GeminiCatch.value]]
               ELSE [second EXCEPT !.narr = "threw", !.pc = "done", !.outcome = "rejected",
                                   !.error = [kind |-> "gemini", of |-> "", attempt |-> 0]]
  /\ UNCHANGED <<build, probe, landing>> /\ UNCHANGED First

ConcNext ==
  \/ FirstCall \/ FirstRespondOk \/ RespondFail \/ FirstGenRespond \/ GenThrow
  \/ SecondCall \/ SecondRespondOk \/ SecondRespondFail
  \/ SecondGenRespond \/ SecondGenThrow

ConcSpec == Init /\ [][ConcNext]_vars

\* --------------------------------------------- the helpers called on their own
\* The arguments of normClip.
ClipInputs ==
  [fn : {"normClip"}, x : -1..MaxClip, a : -1..MaxClip, b : -1..MaxClip, done : {FALSE}]

\* The arguments of the score: the four densities, none negative.
Densities == {0, 1, ONE, 5 * ONE, 8 * ONE, 10 * ONE, 200 * ONE, 200 * ONE + 1}
ScoreInputs ==
  [fn : {"score"}, road : Densities, intxn : Densities, hosp : Densities,
   school : Densities, done : {FALSE}]

\* The arguments of osmToGeoJSON: documents of up to MaxElems elements, ways
\* of up to MaxVerts vertices, and every set of allowed types.
Verts(n) == [i \in 1..n |-> Pt(i, i + 10)]
ElemInputs ==
  {Node("n1", [amenity |-> "school"], 1, 2), Node("n2", [id |-> "tagged"], 3, 4)}
  \cup {Way("w" \o ToString(n), tags, Verts(n)) :
          n \in 0..MaxVerts,
          tags \in {[highway |-> "path"], [building |-> "yes"], [building |-> "", id |-> "t"]}}
  \cup {WayNoGeometry("w9", [building |-> "yes"]), Relation("r1", [building |-> "yes"])}
SeqsUpTo(S, n) == UNION {[1..k -> S] : k \in 0..n}
OsmInputs ==
  [fn : {"osmToGeoJSON"},
   osmJson : {[elements |-> els] : els \in SeqsUpTo(ElemInputs, MaxElems)},
   geomTypes : SUBSET {"way", "node", "relation"},
   done : {FALSE}]

\* The arguments of intersectionDensityPerKm2: collections of up to MaxElems
\* features with lines of up to MaxVerts vertices. Coordinates are in half
\* cells: 1 and 2 round to the same cell, 3 to the next one.
Corners == << <<1, 1>>, <<2, 2>>, <<3, 3>> >>
Line(s, n) == [i \in 1..n |-> Corners[((s + i) % 3) + 1]]
NumLineStrings == 3 * (MaxVerts + 1)
GeometryInputs ==
  [i \in 1..NumLineStrings |->
     [type |-> "LineString", coordinates |-> Line((i - 1) % 3, (i - 1) \div 3)]]
  \o [i \in 1..9 |->
        [type |-> "MultiLineString",
         coordinates |-> <<Line((i - 1) \div 3, MaxVerts), Line((i - 1) % 3, 1)>>]]
  \o << [type |-> "MultiLineString", coordinates |-> <<>>],
        [type |-> "Point", coordinates |-> Corners[1]],
        [type |-> "Polygon",
         coordinates |-> << <<Corners[1], Corners[2], Corners[1], Corners[1]>> >>] >>
FeatureInputs ==
  [i \in 1..Len(GeometryInputs) |->
     [type |-> "Feature", geometry |-> GeometryInputs[i], properties |-> [id |-> "f"]]]

\* The collection of the features picked by the index list fs.
CollectionOf(fs) ==
  [type |-> "FeatureCollection", features |-> [i \in 1..Len(fs) |-> FeatureInputs[fs[i]]]]

IntxnInputs ==
  [fn : {"intersectionDensityPerKm2"},
   fs : SeqsUpTo(1..Len(FeatureInputs), MaxElems),
   areaKm2 : {0, ONE, 2 * ONE},
   done : {FALSE}]

\* The arguments of the metrics computation of analyzeBBox: a bbox that
\* passed validation and the three payloads, among them dense ones.
LongRoadDoc ==
  [elements |-> << Way("w4", [highway |-> "motorway"], <<Pt(0, 0), Pt(12, 0)>>) >>]
DenseAmenDoc ==
  [elements |->
     [i \in 1..15 |-> Node("n" \o ToString(i),
                           [amenity |-> IF i <= 6 THEN "hospital" ELSE "school"], 1, 1)]]
MetricsInputs ==
  [fn : {"metrics"},
   bbox : {<<0, 0, 2, 1>>, <<0, 0, 1, 1>>, <<1, 0, 1, 2>>, <<0, 3, 4, 3>>, <<NaN, 0, 2, 1>>},
   roadsOs : Docs("roads") \cup {LongRoadDoc},
   buildOs : Docs("build"),
   amenOs : Docs("amen") \cup {DenseAmenDoc},
   done : {FALSE}]

\* The arguments of findLongestDistance: lists of up to MAX_POINTS [lat, lon]
\* points.
LatLons == {<<lat, lon>> : lat \in 0..2, lon \in 0..1}
DistanceInputs ==
  [fn : {"findLongestDistance"},
   coordinates : SeqsUpTo(LatLons, MAX_POINTS),
   done : {FALSE}]

ProbeInputs ==
  ClipInputs \cup ScoreInputs \cup OsmInputs \cup IntxnInputs \cup MetricsInputs
  \cup DistanceInputs

FnInit == BaseInit /\ probe \in ProbeInputs /\ landing = NoLanding

Unprobed ==
  <<build, bbox, options, pc, outcome, error, result, ai, fetch, failLog, metrics,
    narr, genCalls, genResponse, genPrompt, second, landing>>

ApplyNormClip ==
  /\ probe.fn = "normClip" /\ ~probe.done
  /\ probe' = [fn |-> "normClip", x |-> probe.x, a |-> probe.a, b |-> probe.b,
               done |-> TRUE, out |-> normClip(probe.x, probe.a, probe.b)]
  /\ UNCHANGED Unprobed

\* SocioEconScore: Number(socio_score.toFixed(1)).
ApplyScore ==
  /\ probe.fn = "score" /\ ~probe.done
  /\ probe' = [fn |-> "score", road |-> probe.road, intxn |-> probe.intxn,
               hosp |-> probe.hosp, school |-> probe.school, done |-> TRUE,
               out |-> ToFixed(SocioScore(probe.road, probe.intxn, probe.hosp, probe.school), 1)]
  /\ UNCHANGED Unprobed

ApplyOsmToGeoJSON ==
  /\ probe.fn = "osmToGeoJSON" /\ ~probe.done
  /\ probe' = [fn |-> "osmToGeoJSON", osmJson |-> probe.osmJson,
               geomTypes |-> probe.geomTypes, done |-> TRUE,
               out |-> osmToGeoJSON(probe.osmJson, probe.geomTypes)]
  /\ UNCHANGED Unprobed

ApplyIntersectionDensity ==
  /\ probe.fn = "intersectionDensityPerKm2" /\ ~probe.done
  /\ probe' = [fn |-> "intersectionDensityPerKm2", fs |-> probe.fs,
               areaKm2 |-> probe.areaKm2, done |-> TRUE,
               out |-> intersectionDensityPerKm2(CollectionOf(probe.fs), probe.areaKm2)]
  /\ UNCHANGED Unprobed

ApplyMetrics ==
  /\ probe.fn = "metrics" /\ ~probe.done
  /\ probe' = [fn |-> "metrics", bbox |-> probe.bbox, roadsOs |-> probe.roadsOs,
               buildOs |-> probe.buildOs, amenOs |-> probe.amenOs, done |-> TRUE,
               area |-> AreaKm2(bboxPolygon(probe.bbox)),
               out |-> ComputeMetrics(probe.bbox, probe.roadsOs, probe.buildOs, probe.amenOs)]
  /\ UNCHANGED Unprobed

ApplyFindLongestDistance ==
  /\ probe.fn = "findLongestDistance" /\ ~probe.done
  /\ probe' = [fn |-> "findLongestDistance", coordinates |-> probe.coordinates,
               done |-> TRUE, out |-> findLongestDistance(probe.coordinates)]
  /\ UNCHANGED Unprobed

FnNext ==
  \/ ApplyNormClip \/ ApplyScore \/ ApplyOsmToGeoJSON \/ ApplyIntersectionDensity
  \/ ApplyMetrics \/ ApplyFindLongestDistance

FnSpec == FnInit /\ [][FnNext]_vars

\* ------------------------------------------------- the Landing component
MaxAnalyses == 2
MaxFollowUps == 1

Uis == {"part_002", "part_003"}

\* The [lat, lng] positions a click or a drag can give.
ClickPoints == {<<0, 0>>, <<0, 1>>, <<1, 1>>}

\* What local storage holds under "leaflet-points" when the page loads: what
\* an earlier visit wrote.
StoredInputs ==
  {<<>>, << <<0, 0>> >>, << <<0, 0>>, <<0, 1>>, <<1, 1>>, <<0, 0>> >>}

LandingInputs == {[NoLanding EXCEPT !.ui = u, !.storage = s] : u \in Uis, s \in StoredInputs}

LandingInit == BaseInit /\ probe = NoProbe /\ landing \in LandingInputs

NotLanding ==
  <<build, bbox, options, pc, outcome, error, result, ai, fetch, failLog, metrics,
    narr, genCalls, genResponse, genPrompt, probe, second>>

\* The entries of insights and of context, stamped with the call they are of.
Analysis(n) == [kind |-> "analysis", of |-> n]
FollowUpText(n) == [kind |-> "followUp", of |-> n]
MetricsInsight == "metrics"
AnalysisInsight == "analysis"
FollowUpInsight == "follow-up"
Placeholders == <<"success", "info", "warning">>

\* The first effect has run when the second one reads local storage:
\* getItem gives what setItem has just written.
SavedAtMount(points, storage) == points

\* setPoints((p) => p.length >= MAX_POINTS ? p : [...p, latlng])
addPoint(p, latlng) == IF Len(p) >= MAX_POINTS THEN p ELSE Append(p, latlng)

\* prev.filter((_, idx) => idx !== i)
WithoutIndex(prev, i) == SubSeq(prev, 1, i - 1) \o SubSeq(prev, i + 1, Len(prev))

\* p.slice(0, -1)
WithoutLast(p) == SubSeq(p, 1, Len(p) - 1)

\* Mutant: the button stays enabled while an analysis runs.
AnalyzeDisabled_IgnoresLoading(points, isLoading) == Len(points) < 3

\* disabled={points.length < 3 || isLoading}
AnalyzeDisabled(points, isLoading) == Len(points) < 3 \/ isLoading

\* setPoints(next) and the effect that follows it: the points are written to
\* local storage.
setPoints(next) == [landing EXCEPT !.points = next, !.storage = next]

\* The component is rendered and its two effects run: the first writes the
\* (empty) points to local storage, the second reads them back and restores
\* them when there are any; a restore makes the first effect run again.
Mount ==
  /\ ~landing.mounted
  /\ LET saved == SavedAtMount(landing.points, landing.storage)
         restored == IF Len(saved) > 0 THEN saved ELSE landing.points
     IN  landing' = [setPoints(restored) EXCEPT !.mounted = TRUE]
  /\ UNCHANGED NotLanding

\* MapClickHandler: a click on the map.
MapClick ==
  \E latlng \in ClickPoints :
    /\ landing.mounted
    /\ ~(Len(landing.points) >= MAX_POINTS)
    /\ landing' = setPoints(addPoint(landing.points, latlng))
    /\ UNCHANGED NotLanding

MarkerDragEnd ==
  \E index \in 1..Len(landing.points), latlng \in ClickPoints :
    /\ landing.mounted
    /\ landing' = setPoints([landing.points EXCEPT ![index] = latlng])
    /\ UNCHANGED NotLanding

DeletePoint ==
  \E i \in 1..Len(landing.points) :
    /\ landing.mounted
    /\ landing' = setPoints(WithoutIndex(landing.points, i))
    /\ UNCHANGED NotLanding

\* disabled={points.length === 0}
RemoveLast ==
  /\ landing.mounted
  /\ Len(landing.points) # 0
  /\ landing' = setPoints(WithoutLast(landing.points))
  /\ UNCHANGED NotLanding

ClearAll ==
  /\ landing.mounted
  /\ landing' = setPoints(<<>>)
  /\ UNCHANGED NotLanding

\* handleClick up to its await: the setters, findLongestDistance and the
\* call of analyzeBBox. Nothing catches what findLongestDistance throws.
HandleClick ==
  /\ landing.mounted
  /\ ~AnalyzeDisabled(landing.points, landing.isLoading)
  /\ landing.analyses < MaxAnalyses
  /\ LET r == findLongestDistance(landing.points)
     IN  landing' = [landing EXCEPT !.isLoading = TRUE,
                                    !.insights = <<>>,
                                    !.context = <<>>,
                                    !.captured = landing.context,
                                    !.analyses = landing.analyses + 1,
                                    !.handler = IF r.threw THEN "threw" ELSE "awaiting",
                                    !.pts = r.value]
  /\ UNCHANGED NotLanding

\* analyzeBBox resolves: the rest of handleClick.
AnalysisResolved ==
  /\ landing.handler = "awaiting"
  /\ landing' = [landing EXCEPT
       !.context = IF landing.ui = "part_002"
                   THEN Append(landing.captured, Analysis(landing.analyses))
                   ELSE landing.context,
       !.insights = IF landing.ui = "part_002"
                    THEN <<MetricsInsight, AnalysisInsight>>
                    ELSE Placeholders,
       !.isLoading = FALSE,
       !.handler = "returned"]
  /\ UNCHANGED NotLanding

\* analyzeBBox rejects: the await throws and handleClick ends there.
AnalysisRejected ==
  /\ landing.handler = "awaiting"
  /\ landing' = [landing EXCEPT !.handler = "threw"]
  /\ UNCHANGED NotLanding

\* handleFollowUp up to its await; the form is rendered with the insights,
\* and its button is disabled while a follow-up is out.
FollowUpSubmit ==
  /\ landing.ui = "part_002" /\ landing.mounted
  /\ ~landing.isLoading /\ Len(landing.insights) > 0
  /\ ~landing.isFollowUpLoading
  /\ landing.followUps < MaxFollowUps
  /\ landing' = [landing EXCEPT !.isFollowUpLoading = TRUE,
                                !.followUps = landing.followUps + 1]
  /\ UNCHANGED NotLanding

\* generateContent resolves: the rest of the try block, then finally.
FollowUpAnswered ==
  /\ landing.isFollowUpLoading
  /\ landing' = [landing EXCEPT
       !.insights = Append(landing.insights, FollowUpInsight),
       !.context = Append(landing.context, FollowUpText(landing.followUps)),
       !.isFollowUpLoading = FALSE]
  /\ UNCHANGED NotLanding

\* The API key is missing or generateContent rejects: catch, then finally.
FollowUpFailed ==
  /\ landing.isFollowUpLoading
  /\ landing' = [landing EXCEPT !.isFollowUpLoading = FALSE]
  /\ UNCHANGED NotLanding

LandingNext ==
  \/ Mount \/ MapClick \/ MarkerDragEnd \/ DeletePoint \/ RemoveLast \/ ClearAll
  \/ HandleClick \/ AnalysisResolved \/ AnalysisRejected
  \/ FollowUpSubmit \/ FollowUpAnswered \/ FollowUpFailed

LandingSpec == LandingInit /\ [][LandingNext]_vars

\* Every call of analyzeBBox and of generateContent settles.
LandingLiveSpec ==
  /\ LandingSpec
  /\ WF_vars(AnalysisResolved \/ AnalysisRejected)
  /\ WF_vars(FollowUpAnswered \/ FollowUpFailed)

\* ------------------------------------------------------------------ claims
AllFailed(h) == \A i \in 1..Len(h) : ~h[i].ok
FetchesStarted == pc # "idle" /\ ~BBoxRejected(bbox)
MetricsOfPayloads ==
  ComputeMetrics(bbox.elems, fetch["roads"].data, fetch["build"].data, fetch["amen"].data)

\* C1: an overpass call whose first k attempts fail (k <= retries) and whose
\* attempt k+1 succeeds returns exactly the payload of attempt k+1, after
\* exactly k+1 requests and no further one; after k <= retries failures the
\* call has not given up.
C1_RetryThenSuccess ==
  \A k \in Kinds :
    LET f == fetch[k]
        h == f.hist
        n == Len(h)
    IN  /\ (n > 0 /\ h[n].ok) =>
             /\ AllFailed(SubSeq(h, 1, n - 1))
             /\ n - 1 <= options.overpassRetries
             /\ f.st = "ok"
             /\ f.data = h[n].data
             /\ f.requests = n
        /\ (n > 0 /\ AllFailed(h) /\ n <= options.overpassRetries) =>
             /\ f.st \in {"paused", "inflight"}
             /\ f.requests = IF f.st = "paused" THEN n ELSE n + 1
        /\ f.st = "ok" => (n > 0 /\ h[n].ok)

C1_Witness ==
  \E k \in Kinds :
    /\ options.overpassRetries = MaxRetries
    /\ fetch[k].st = "ok"
    /\ Len(fetch[k].hist) = MaxRetries + 1
    /\ fetch[k].data # EmptyDoc

\* C2: an overpass call whose attempts all fail raises after exactly
\* retries+1 requests, and what it raises is the failure of the last attempt.
C2_ExhaustedRaisesLast ==
  \A k \in Kinds :
    LET f == fetch[k]
        h == f.hist
        n == Len(h)
        r == options.overpassRetries
    IN  /\ f.st = "failed" =>
             /\ AllFailed(h)
             /\ n = r + 1
             /\ f.requests = r + 1
             /\ f.err = h[n].err
             /\ f.err = RequestError(k, r)
             /\ \A i \in 1..(n - 1) : h[i].err # f.err
        /\ (AllFailed(h) /\ n = r + 1) => f.st = "failed"

C2_Witness ==
  \E k \in Kinds :
    /\ options.overpassRetries = MaxRetries
    /\ fetch[k].st = "failed"
    /\ fetch[k].requests = MaxRetries + 1

\* C3: if any one of the three overpass calls fails after exhausting its
\* retries, analyzeBBox rejects and never returns a metrics object, whatever
\* the other two do.
C3_AnyFailureRejects ==
  (\E k \in Kinds : fetch[k].st = "failed") =>
    /\ outcome = "rejected"
    /\ error.kind = "request"
    /\ result = NoResult
    /\ metrics = NoMetrics

C3_Witness ==
  \E k \in Kinds :
    /\ fetch[k].st = "failed"
    /\ \A j \in Kinds \ {k} : fetch[j].st = "ok"
    /\ outcome = "rejected"

\* C4: analyzeBBox raises the validation error, with no request issued, for
\* every bbox that is not a 4-element numeric tuple (not an array, an array
\* of another length, a 4-element array with a non-numeric element).
NumericTuple(b) ==
  b.isArray /\ Len(b.elems) = 4 /\ \A i \in 1..Len(b.elems) : ~IsNaN(b.elems[i])

C4_ValidationBeforeIO ==
  (pc # "idle" /\ ~NumericTuple(bbox)) =>
    /\ outcome = "rejected"
    /\ error = ValidationError
    /\ \A k \in Kinds : fetch[k].requests = 0

\* C5: when the narrative generator is unconfigured or its call throws,
\* analyzeBBox still resolves with {metrics, analysis}: analysis is a fixed
\* string that does not depend on the metrics, and metrics has all its fields.
FixedAnalysis ==
  IF build = "script" THEN AreaReport
  ELSE IF ai = "null" THEN NotConfigured
  ELSE Unavailable

C5_NarrativeFailureAbsorbed ==
  /\ (metrics # NoMetrics /\ (ai = "null" \/ narr = "threw")) =>
       /\ outcome = "resolved"
       /\ DOMAIN result = {"metrics", "analysis"}
       /\ result.analysis = FixedAnalysis
       /\ result.metrics = metrics
       /\ DOMAIN result.metrics = MetricFields
  /\ narr # "none" => outcome # "rejected"

C5_Witness ==
  /\ narr = "threw"
  /\ outcome = "resolved"
  /\ result.analysis = Unavailable

\* A response with no text field and no candidate text.
Malformed(r) == ~(r.type = "object" /\ (r.text # "" \/ r.candText # ""))

\* C6 as stated: when the generator call returns a malformed response, the
\* analysis field is the fixed fallback string, not data derived from the
\* response.
C6_MalformedGivesFallback ==
  (narr = "returned" /\ Malformed(genResponse)) =>
    result.analysis \in {Unavailable, NotConfigured}

\* C6 as amended: when the generator call returns a malformed response,
\* analyzeBBox resolves and the analysis field is derived from the response:
\* the response itself when it is a string, else JSON.stringify(response)
\* (undefined for an undefined response).
C6_MalformedGivesResponse ==
  (narr = "returned" /\ Malformed(genResponse)) =>
    /\ outcome = "resolved"
    /\ result.metrics = metrics
    /\ result.analysis = IF genResponse.type = "string" THEN genResponse.text
                         ELSE JSONstringify(genResponse)

C6_Witness ==
  /\ narr = "returned"
  /\ genResponse = [type |-> "object", text |-> "", candText |-> ""]
  /\ result.analysis = "{}"

\* C7 as stated: analyzeBBox neither resolves nor rejects before all three
\* overpass calls have settled; when one fails, the error raised is that of
\* the call that failed first in time.
C7_JoinAll ==
  /\ (FetchesStarted /\ outcome \in {"resolved", "rejected"}) => Settled(fetch)
  /\ (outcome = "rejected" /\ failLog # <<>>) => error = fetch[failLog[1]].err

\* C7 as amended: analyzeBBox does not resolve before all three overpass
\* calls have succeeded; it rejects as soon as the first of them fails,
\* without waiting for the others to settle, with the error of the call that
\* failed first in time.
C7_FailFast ==
  /\ outcome = "resolved" => \A k \in Kinds : fetch[k].st = "ok"
  /\ failLog # <<>> => (outcome = "rejected" /\ error = fetch[failLog[1]].err)
  /\ (FetchesStarted /\ outcome = "rejected") => failLog # <<>>

C7_Witness ==
  /\ outcome = "rejected"
  /\ Len(failLog) = 1
  /\ \E j \in Kinds : fetch[j].st \in {"inflight", "paused"}

\* C8: once validation has passed, the first request of each of the three
\* overpass calls is out before analyzeBBox takes any response: no call waits
\* for another one, and all three can be in flight at once.
C8_AllStartedBeforeWaiting ==
  FetchesStarted =>
    /\ \A k \in Kinds : fetch[k].requests >= 1
    /\ (\A k \in Kinds : fetch[k].hist = <<>>) => \A k \in Kinds : fetch[k].st = "inflight"

C8_Witness ==
  /\ pc = "fetching"
  /\ \A k \in Kinds : fetch[k].st = "inflight" /\ fetch[k].hist = <<>>

\* C9: narrative generation starts only after all three overpass calls have
\* succeeded and the metrics record is complete; it overlaps no request of
\* the call, and the metrics returned are the ones built from the payloads.
C9_NarrativeAfterMetrics ==
  /\ narr # "none" =>
       /\ \A k \in Kinds : fetch[k].st = "ok"
       /\ DOMAIN metrics = MetricFields
       /\ metrics = MetricsOfPayloads
  /\ narr = "none" => genCalls = 0
  /\ outcome = "resolved" => result.metrics = MetricsOfPayloads

C9_Witness ==
  /\ pc = "narrative"
  /\ narr = "inflight"
  /\ genCalls = 1
  /\ metrics = MetricsOfPayloads

\* C10: with narrative generation enabled and an API key configured, every
\* analyzeBBox call whose three overpass calls succeed hands the metrics to
\* the generator exactly once, and the analysis returned is the text that
\* call produced.
C10_GeneratorCalledOnce ==
  (/\ NumericTuple(bbox)
   /\ options.useGemini /\ options.apiKey # ""
   /\ \A k \in Kinds : fetch[k].st = "ok") =>
    /\ genCalls = 1
    /\ (outcome = "resolved" /\ genResponse.type = "object" /\ genResponse.text # "") =>
         result.analysis = genResponse.text
    /\ outcome = "resolved" => narr \in {"returned", "threw"}

\* C11: the prompt built for the narrative generator embeds the bounding box
\* given to analyzeBBox (its location field is the caller's bbox), together
\* with the area, the densities and the score of the metrics record.
C11_PromptEmbedsBBox ==
  (genCalls >= 1 /\ NumericTuple(bbox)) =>
    /\ genPrompt.location = [defined |-> TRUE, value |-> bbox.elems]
    /\ genPrompt.area_km2 = [defined |-> TRUE, value |-> metrics.area_km2]
    /\ genPrompt.roads_km_per_km2 = [defined |-> TRUE, value |-> metrics.roads_km_per_km2]
    /\ genPrompt.buildings_per_km2 = [defined |-> TRUE, value |-> metrics.buildings_per_km2]
    /\ genPrompt.intersections_per_km2 = [defined |-> TRUE, value |-> metrics.intersections_per_km2]
    /\ genPrompt.hospitals_per_km2 = [defined |-> TRUE, value |-> metrics.hospitals_per_km2]
    /\ genPrompt.schools_per_km2 = [defined |-> TRUE, value |-> metrics.schools_per_km2]
    /\ genPrompt.SocioEconScore = [defined |-> TRUE, value |-> metrics.SocioEconScore]

Returned(fn) == probe.fn = fn /\ probe.done

\* C12: for all non-negative values of the four densities the SocioEconScore
\* analyzeBBox computes lies in [0, 100].
C12_ScoreInRange ==
  Returned("score") => (probe.out >= 0 /\ probe.out <= 100 * ONE)

C12_Witness ==
  /\ Returned("score")
  /\ probe.road > 10 * ONE /\ probe.intxn > 200 * ONE
  /\ probe.hosp > 5 * ONE /\ probe.school > 8 * ONE
  /\ probe.out = 70 * ONE

\* C13: for all x, a, b, normClip(x, a, b) lies in [0, 1], and for fixed
\* a < b it is non-decreasing in x.
C13_ClipInRangeMonotone ==
  Returned("normClip") =>
    /\ probe.out >= 0 /\ probe.out <= ONE
    /\ probe.a < probe.b =>
         \A y \in -1..MaxClip :
           y <= probe.x => normClip(y, probe.a, probe.b) <= probe.out

\* C14 as stated: for a <= b, normClip(x, a, b) is 0 whenever x <= a and 1
\* whenever x >= b, also at x = b exactly and when a = b.
C14_ClipEndsExact ==
  (Returned("normClip") /\ probe.a <= probe.b) =>
    /\ probe.x <= probe.a => probe.out = 0
    /\ probe.x >= probe.b => probe.out = ONE

\* C14 as the code has it: for a <= b, normClip(x, a, b) is 0 whenever
\* x <= a and 1 whenever x is at least 1e-9 above b; at x = b exactly it is
\* (b - a) / (b - a + 1e-9), which is below 1, and 0 when a = b.
C14_ClipEnds ==
  (Returned("normClip") /\ probe.a <= probe.b) =>
    /\ probe.x <= probe.a => probe.out = 0
    /\ probe.x >= probe.b + Eps => probe.out = ONE
    /\ probe.x = probe.b =>
         /\ probe.out = Ratio(probe.b - probe.a, probe.b - probe.a + Eps)
         /\ probe.out < ONE
         /\ probe.a = probe.b => probe.out = 0

C14_Witness ==
  /\ Returned("normClip")
  /\ probe.a < probe.b /\ probe.x = probe.b
  /\ probe.out > 0 /\ probe.out < ONE

\* The id a feature of element el carries: the tag named id when there is
\* one, the element's identifier otherwise.
IdOf(el) == IF "id" \in DOMAIN el.tags THEN el.tags["id"] ELSE el.id

Elements == probe.osmJson.elements
Features == probe.out.features

\* A way the conversion is asked to convert: allowed, with a geometry array.
AllowedWay(el) == el.type = "way" /\ "way" \in probe.geomTypes /\ el.hasGeometry

HasTag(el, k) == k \in DOMAIN el.tags
Tagged(el, k) == HasTag(el, k) /\ el.tags[k] # ""

\* C15: a way tagged building with n vertices becomes a Polygon with a single
\* ring of n+1 coordinates, in the way's vertex order, whose last coordinate
\* is identical to its first.
C15_BuildingRingClosed ==
  Returned("osmToGeoJSON") =>
    \A j \in 1..Len(Elements) :
      LET el == Elements[j]
          n == Len(el.geometry)
      IN  (AllowedWay(el) /\ Tagged(el, "building")) =>
            \E i \in 1..Len(Features) :
              LET g == Features[i].geometry IN
              /\ Features[i].properties["id"] = IdOf(el)
              /\ g.type = "Polygon"
              /\ Len(g.coordinates) = 1
              /\ Len(g.coordinates[1]) = n + 1
              /\ \A k \in 1..n :
                   g.coordinates[1][k] = <<el.geometry[k].lon, el.geometry[k].lat>>
              /\ g.coordinates[1][n + 1] = g.coordinates[1][1]

C15_Witness ==
  /\ Returned("osmToGeoJSON")
  /\ \E j \in 1..Len(Elements) :
       /\ AllowedWay(Elements[j]) /\ Tagged(Elements[j], "building")
       /\ Len(Elements[j].geometry) = MaxVerts
  /\ \E i \in 1..Len(Features) :
       /\ Features[i].geometry.type = "Polygon"
       /\ Len(Features[i].geometry.coordinates[1]) = MaxVerts + 1

\* Some feature of the result carries el's id and the geometry geom.
Yields(el, geom) ==
  \E i \in 1..Len(Features) :
    Features[i].properties["id"] = IdOf(el) /\ Features[i].geometry = geom

\* The type of whatever geometry osmToGeoJSON gives element el alone under
\* the allowed types of the call; "none" when it gives no feature.
TypeAlone(el) ==
  LET fs == osmToGeoJSON([elements |-> <<el>>], probe.geomTypes).features
  IN  IF fs = <<>> THEN "none" ELSE fs[1].geometry.type

\* C16 as stated: every allowed node becomes a Point at (lon, lat), every
\* allowed way whose tags contain a building key a Polygon, every other
\* allowed way with geometry a LineString with the way's coordinates in order.
C16_TypeByBuildingKey ==
  Returned("osmToGeoJSON") =>
    \A j \in 1..Len(Elements) :
      LET el == Elements[j] IN
      /\ (el.type = "node" /\ "node" \in probe.geomTypes) =>
           Yields(el, [type |-> "Point", coordinates |-> <<el.lon, el.lat>>])
      /\ (el.type = "way" /\ "way" \in probe.geomTypes /\ HasTag(el, "building")) =>
           \E i \in 1..Len(Features) :
             /\ Features[i].properties["id"] = IdOf(el)
             /\ Features[i].geometry.type = "Polygon"
      /\ (AllowedWay(el) /\ ~HasTag(el, "building")) =>
           Yields(el, [type |-> "LineString", coordinates |-> Coords(el.geometry)])

\* C16 as the code has it: every allowed node becomes a Point at (lon, lat);
\* an allowed way with a geometry array becomes a Polygon when its building
\* tag has a truthy value and a LineString with the way's coordinates in
\* order otherwise (also when the building tag is the empty string); an
\* allowed way without a geometry array gives no feature; the geometry type
\* is the same for elements that agree on these three things.
C16_TypeByBuildingValue ==
  Returned("osmToGeoJSON") =>
    /\ \A j \in 1..Len(Elements) :
         LET el == Elements[j] IN
         /\ (el.type = "node" /\ "node" \in probe.geomTypes) =>
              Yields(el, [type |-> "Point", coordinates |-> <<el.lon, el.lat>>])
         /\ (AllowedWay(el) /\ Tagged(el, "building")) =>
              \E i \in 1..Len(Features) :
                /\ Features[i].properties["id"] = IdOf(el)
                /\ Features[i].geometry.type = "Polygon"
         /\ (AllowedWay(el) /\ ~Tagged(el, "building")) =>
              Yields(el, [type |-> "LineString", coordinates |-> Coords(el.geometry)])
         /\ (el.type = "way" /\ ~el.hasGeometry) => TypeAlone(el) = "none"
    /\ \A j, k \in 1..Len(Elements) :
         ( /\ Elements[j].type = Elements[k].type
           /\ Elements[j].hasGeometry = Elements[k].hasGeometry
           /\ Tagged(Elements[j], "building") = Tagged(Elements[k], "building") )
         => TypeAlone(Elements[j]) = TypeAlone(Elements[k])

C16_Witness ==
  /\ Returned("osmToGeoJSON")
  /\ Len(Elements) = 2 /\ Len(Features) = 2
  /\ AllowedWay(Elements[1]) /\ HasTag(Elements[1], "building")
  /\ ~Tagged(Elements[1], "building")
  /\ Features[1].geometry.type = "LineString"
  /\ AllowedWay(Elements[2]) /\ Tagged(Elements[2], "building")
  /\ Features[2].geometry.type = "Polygon"

\* The order-preserving ways of assigning n features to m elements.
Embeddings(n, m) ==
  {g \in [1..n -> 1..m] : \A i, k \in 1..n : i < k => g[i] < g[k]}

\* C17: every feature comes from an input element whose type is allowed,
\* features appear in the order of their input elements, and a relation never
\* gives a feature, also when "relation" is allowed.
C17_AllowedInOrderNoRelation ==
  Returned("osmToGeoJSON") =>
    \E g \in Embeddings(Len(Features), Len(Elements)) :
      \A i \in 1..Len(Features) :
        LET el == Elements[g[i]] IN
        /\ Features[i].properties["id"] = IdOf(el)
        /\ el.type \in probe.geomTypes
        /\ el.type # "relation"

C17_Witness ==
  /\ Returned("osmToGeoJSON")
  /\ "relation" \in probe.geomTypes /\ "way" \notin probe.geomTypes
  /\ Len(Elements) = 2
  /\ Elements[1].type = "relation" /\ Elements[2].type = "node"
  /\ Len(Features) = 1
  /\ Features[1].geometry.type = "Point"

\* C18: the properties of every feature contain every tag of the source
\* element and an id key; id is the element's identifier unless the element
\* has a tag named id, and then it is that tag's value.
C18_PropertiesTagsOverId ==
  Returned("osmToGeoJSON") =>
    \E g \in Embeddings(Len(Features), Len(Elements)) :
      \A i \in 1..Len(Features) :
        LET el == Elements[g[i]]
            props == Features[i].properties
        IN  /\ "id" \in DOMAIN props
            /\ \A t \in DOMAIN el.tags : t \in DOMAIN props /\ props[t] = el.tags[t]
            /\ HasTag(el, "id") => props["id"] = el.tags["id"]
            /\ ~HasTag(el, "id") => props["id"] = el.id
            /\ Features[i].geometry.type = TypeAlone(el)

C18_Witness ==
  /\ Returned("osmToGeoJSON")
  /\ Len(Elements) = 2 /\ Len(Features) = 2
  /\ HasTag(Elements[1], "id") /\ Elements[1].id # Elements[1].tags["id"]
  /\ Features[1].properties["id"] = Elements[1].tags["id"]
  /\ ~HasTag(Elements[2], "id")
  /\ Features[2].properties["id"] = Elements[2].id

\* Every vertex of every LineString and MultiLineString feature of the
\* collection, as <<feature, line, position, cell>>.
LineVertices ==
  LET fs == CollectionOf(probe.fs).features IN
  UNION {
    IF fs[i].geometry.type = "LineString"
    THEN {<<i, 1, k, <<Quantize(fs[i].geometry.coordinates[k][1]),
                       Quantize(fs[i].geometry.coordinates[k][2])>> >> :
            k \in 1..Len(fs[i].geometry.coordinates)}
    ELSE IF fs[i].geometry.type = "MultiLineString"
    THEN UNION {
           {<<i, l, k, <<Quantize(fs[i].geometry.coordinates[l][k][1]),
                         Quantize(fs[i].geometry.coordinates[l][k][2])>> >> :
              k \in 1..Len(fs[i].geometry.coordinates[l])} :
           l \in 1..Len(fs[i].geometry.coordinates)}
    ELSE {} : i \in 1..Len(fs)}

Hits(cell) == Cardinality({v \in LineVertices : v[4] = cell})
CellsHit == {v[4] : v \in LineVertices}

\* C19: for a non-zero area the intersection density is the number of
\* distinct quantized cells hit by at least 3 vertices, counted over all
\* LineString and MultiLineString features together, divided by the area: a
\* cell hit 3 or more times counts once, a cell hit once or twice not at all.
C19_CellsHitThreeTimes ==
  (Returned("intersectionDensityPerKm2") /\ probe.areaKm2 # 0) =>
    probe.out = Div(Cardinality({c \in CellsHit : Hits(c) >= 3}) * ONE, probe.areaKm2)

C19_Witness ==
  /\ Returned("intersectionDensityPerKm2") /\ probe.areaKm2 = 2 * ONE
  /\ Len(CollectionOf(probe.fs).features) = 2
  /\ CollectionOf(probe.fs).features[1].geometry.type = "LineString"
  /\ CollectionOf(probe.fs).features[2].geometry.type = "MultiLineString"
  /\ \A v \in LineVertices : Hits(v[4]) = 3 => \E w \in LineVertices : w[1] # v[1] /\ w[4] = v[4]
  /\ \E c \in CellsHit : Hits(c) = 3
  /\ \E c \in CellsHit : Hits(c) \in {1, 2}
  /\ probe.out = ONE \div 2

\* The first invocation's arguments and locals, as a record like second.
FirstInvocation ==
  [bbox |-> bbox, options |-> options, pc |-> pc, outcome |-> outcome, error |-> error,
   result |-> result, ai |-> ai, fetch |-> fetch, failLog |-> failLog,
   metrics |-> metrics, narr |-> narr, genCalls |-> genCalls, genResponse |-> genResponse]

\* What an invocation run alone has come to, given only its own arguments and
\* the answers it has received so far.
Alone(inv) ==
  LET p == PromiseAll(inv.fetch, inv.failLog)
      m == ComputeMetrics(inv.bbox.elems, p.values["roads"], p.values["build"],
                          p.values["amen"])
      g == GeminiStart(build, MakeClient(inv.options))
      pending == [outcome |-> "pending", error |-> NoError, result |-> NoResult]
  IN  IF BBoxRejected(inv.bbox)
      THEN [outcome |-> "rejected", error |-> ValidationError, result |-> NoResult]
      ELSE IF p.state = "pending" THEN pending
      ELSE IF p.state = "rejected"
      THEN [outcome |-> "rejected", error |-> p.reason, result |-> NoResult]
      ELSE IF g.kind = "return"
      THEN [outcome |-> "resolved", error |-> NoError,
            result |-> [metrics |-> m, analysis |-> g.value]]
      ELSE IF inv.narr = "returned"
      THEN [outcome |-> "resolved", error |-> NoError,
            result |-> [metrics |-> m, analysis |-> GeminiExtract(inv.genResponse)]]
      ELSE IF inv.narr = "threw"
      THEN [outcome |-> "resolved", error |-> NoError,
            result |-> [metrics |-> m, analysis |-> Unavailable]]
      ELSE pending

AsAlone(inv) ==
  inv.pc # "idle" =>
    [outcome |-> inv.outcome, error |-> inv.error, result |-> inv.result] = Alone(inv)

\* The answers an invocation received: of its overpass calls and its generator.
Answers(inv) ==
  <<[k \in Kinds |-> inv.fetch[k].hist], inv.narr, inv.genResponse>>

\* C20: in every interleaving of two invocations each one's outcome is the
\* one it has when run alone on the answers it received, and two invocations
\* with the same bbox that received the same answers resolve with the same
\* result.
C20_InvocationsIndependent ==
  /\ AsAlone(FirstInvocation)
  /\ AsAlone(second)
  /\ ( /\ outcome = "resolved" /\ second.outcome = "resolved"
       /\ bbox = second.bbox
       /\ Answers(FirstInvocation) = Answers(second) )
     => result = second.result

C20_Witness ==
  /\ build = "part_000"
  /\ second.concurrent
  /\ outcome = "resolved" /\ second.outcome = "resolved"
  /\ options.apiKey = "" /\ second.options.apiKey = "key"
  /\ bbox = second.bbox
  /\ [k \in Kinds |-> fetch[k].hist] = [k \in Kinds |-> second.fetch[k].hist]
  /\ result.metrics = second.result.metrics
  /\ result.analysis = NotConfigured
  /\ second.result.analysis = "narrative"

\* The requests of one overpass call that have not been answered yet.
Outstanding(f) == f.requests - Len(f.hist)
LastFailed(f) == Len(f.hist) > 0 /\ ~f.hist[Len(f.hist)].ok

\* C21: within one overpass call at most one request is in flight; attempt
\* i+1 is issued only after attempt i has failed and the pause is over; no
\* pause follows a successful attempt or the final failed attempt.
C21_SequentialRetry ==
  [][\A k \in Kinds :
       LET f == fetch[k]
           g == fetch'[k]
           answered == Len(g.hist) > Len(f.hist)
       IN  /\ Outstanding(g) \in {0, 1}
           /\ g.st = "inflight" <=> Outstanding(g) = 1
           /\ (f.requests > 0 /\ g.requests # f.requests) =>
                /\ g.requests = f.requests + 1
                /\ f.st = "paused"
                /\ LastFailed(f)
           /\ (g.st = "paused" /\ f.st # "paused") =>
                /\ f.st = "inflight"
                /\ LastFailed(g)
                /\ Len(g.hist) <= options.overpassRetries
           /\ (answered /\ ~LastFailed(g)) => g.st = "ok"
           /\ (answered /\ LastFailed(g) /\ Len(g.hist) > options.overpassRetries) =>
                g.st = "failed"
           /\ f.st \in {"ok", "failed"} => g = f
    ]_vars

C21_Witness ==
  \E k \in Kinds :
    /\ fetch[k].st = "inflight"
    /\ fetch[k].attempt = MaxRetries
    /\ Len(fetch[k].hist) = MaxRetries
    /\ \E j \in Kinds : j # k /\ fetch[j].st = "paused"

\* C22: the three overpass calls of one analyzeBBox call do not influence one
\* another: how many attempts a call has made and where it stands follow from
\* the answers to its own requests alone, and a call that is still running
\* when analyzeBBox has rejected is not cancelled: its pause still ends with
\* the next attempt.
C22_FetchesIndependent ==
  \A k \in Kinds :
    LET f == fetch[k]
        h == f.hist
        n == Len(h)
        r == options.overpassRetries
    IN  /\ f.st = "ok" <=> (n > 0 /\ h[n].ok)
        /\ f.st = "failed" <=> (n = r + 1 /\ AllFailed(h))
        /\ f.st = "paused" => (AllFailed(h) /\ n \in 1..r /\ f.requests = n)
        /\ f.st = "inflight" => (AllFailed(h) /\ n <= r /\ f.requests = n + 1)
        /\ f.requests > 0 => f.attempt = f.requests - 1
        /\ f.st = "paused" => ENABLED TimerFire

C22_Witness ==
  /\ outcome = "rejected"
  /\ Len(failLog) = 1
  /\ \E k \in Kinds : fetch[k].st = "paused" /\ fetch[k].attempt = 0
  /\ \E k \in Kinds : fetch[k].st = "inflight" /\ fetch[k].attempt = MaxRetries
  /\ ENABLED TimerFire

\* C23: osmToGeoJSON gives a way a LineString or Polygon only when the way's
\* geometry sequence is non-empty, and every Polygon ring it gives consists
\* only of defined [lon, lat] coordinates.
C23_NoEmptyWayGeometry ==
  Returned("osmToGeoJSON") =>
    \A i \in 1..Len(Features) :
      LET g == Features[i].geometry IN
      /\ g.type = "LineString" => Len(g.coordinates) > 0
      /\ g.type = "Polygon" =>
           /\ Len(g.coordinates[1]) > 1
           /\ \A k \in 1..Len(g.coordinates[1]) : g.coordinates[1][k] # Undefined

\* The axios.post calls one analyzeBBox call has made so far.
TotalRequests == fetch["roads"].requests + fetch["build"].requests + fetch["amen"].requests

Accepted == pc # "idle" /\ ~BBoxRejected(bbox)

\* C24: when every request is answered, a call of analyzeBBox whose bbox
\* passes validation eventually resolves or rejects, and it issues between 3
\* and 3*(overpassRetries+1) requests to the interpreter in total, between 1
\* and overpassRetries+1 per overpass call.
C24_TerminatesWithinRequestBudget ==
  /\ [](Accepted =>
          /\ TotalRequests >= 3
          /\ TotalRequests <= 3 * (options.overpassRetries + 1)
          /\ \A k \in Kinds : fetch[k].requests \in 1..(options.overpassRetries + 1))
  /\ Accepted ~> ( /\ outcome \in {"resolved", "rejected"}
                   /\ \A k \in Kinds : fetch[k].st \in {"ok", "failed"} )

C24_Witness ==
  /\ Accepted
  /\ options.overpassRetries = MaxRetries
  /\ outcome = "rejected"
  /\ \A k \in Kinds : fetch[k].st = "failed"
  /\ TotalRequests = 3 * (MaxRetries + 1)

\* C25: with the activity and green sub-scores fixed at 0 the SocioEconScore
\* never exceeds 70, whatever the densities and whatever the bbox and the
\* payloads, and it is 0 whenever the area of the bbox is 0.
C25_ScoreAtMost70ZeroOnNoArea ==
  /\ Returned("score") => probe.out <= 70 * ONE
  /\ Returned("metrics") =>
       /\ probe.out.SocioEconScore <= 70 * ONE
       /\ probe.area = 0 => probe.out.SocioEconScore = 0

C25_Witness ==
  /\ Returned("metrics")
  /\ probe.area = 0
  /\ probe.roadsOs = LongRoadDoc /\ probe.amenOs = DenseAmenDoc
  /\ probe.out.roads_km > 0
  /\ probe.out.SocioEconScore = 0

\* C27: for every list of 2 to 4 [lat, lon] points, also when they all
\* coincide, findLongestDistance returns without throwing the 4-tuple
\* [lon1, lat1, lon2, lat2] of a pair of points at maximal distance.
C27_LongestPairReturned ==
  (Returned("findLongestDistance") /\ Len(probe.coordinates) \in 2..MAX_POINTS) =>
    /\ ~probe.out.threw
    /\ \E i, j \in 1..Len(probe.coordinates) :
         LET p == probe.coordinates[i]
             q == probe.coordinates[j]
         IN  /\ i # j
             /\ probe.out.value = <<p[2], p[1], q[2], q[1]>>
             /\ \A k, l \in 1..Len(probe.coordinates) :
                  Distance2(probe.coordinates[k], probe.coordinates[l]) <= Distance2(p, q)

\* C28: the bbox the Landing page passes to analyzeBBox always has
\* minLon < maxLon and minLat < maxLat, for every 3 or 4 selected points in
\* any click order.
C28_BBoxOrdered ==
  landing.handler = "awaiting" =>
    /\ landing.pts[1] < landing.pts[3]
    /\ landing.pts[2] < landing.pts[4]

\* C26: every analysis started by handleClick ends with isLoading set back
\* to false, whether analyzeBBox resolves or rejects, given that every
\* request settles; the page does not stay in the loading state for ever.
C26_LoadingEnds == landing.isLoading ~> ~landing.isLoading

\* C29: when an analysis started by handleClick completes, the follow-up
\* context holds exactly the new analysis text, whatever analyses and
\* follow-ups came before.
C29_ContextIsNewAnalysis ==
  [][(landing.ui = "part_002" /\ landing.handler = "awaiting"
      /\ landing'.handler = "returned")
     => landing'.context = <<Analysis(landing.analyses)>>]_vars

\* C30: through map clicks, marker drags, per-point delete, undo-last,
\* clear-all and the restore on mount the list of selected points never holds
\* more than MAX_POINTS entries, and an analysis is only started when it holds
\* at least 3 and no analysis is in progress.
C30_PointsBoundedAnalyzeGuarded ==
  /\ [](Len(landing.points) <= MAX_POINTS)
  /\ [][landing'.analyses # landing.analyses
        => (Len(landing.points) >= 3 /\ ~landing.isLoading
            /\ landing.handler # "awaiting")]_vars

C30_Witness ==
  /\ Len(landing.points) = MAX_POINTS
  /\ landing.analyses > 0
  /\ landing.handler = "returned"

====
